---- MODULE Spec2Model ----
(***************************************************************************)
(* Model of scripts/download_xml_files.py: the batch downloader that reads *)
(* fact_dictionaries/links.txt, rewrites every GitHub blob URL to its raw  *)
(* URL, fetches it and writes the body into fact_dictionaries/.            *)
(*                                                                         *)
(* A Python str is a sequence of one-character strings.  The alphabet is   *)
(* lower-case ASCII; whitespace is space, tab and newline.                 *)
(***************************************************************************)
EXTENDS Integers, Sequences, FiniteSets, TLC

VARIABLES
    pc,             \* position in download_xml_files
    run,            \* "first" or "second" invocation of the script
    dirExists,      \* fact_dictionaries/ exists
    files,          \* fact_dictionaries/: file name -> content
    lines,          \* local `lines` (f.readlines())
    li,             \* position of the `for line in lines` loop
    urls,           \* local `urls`
    i,              \* loop index of `for i, url in enumerate(urls, 1)`
    success_count,  \* local `success_count`
    fail_count,     \* local `fail_count`
    log,            \* what the run printed and requested, one record per item
    pre,            \* the file system when the current run started
    first,          \* what the first run read, got and left behind
    arg,            \* argument of a helper called on its own
    ret             \* what that call returned

vars == <<pc, run, dirExists, files, lines, li, urls, i, success_count,
          fail_count, log, pre, first, arg, ret>>

progVars == <<pc, run, dirExists, files, lines, li, urls, i, success_count,
              fail_count, log, pre, first>>

-----------------------------------------------------------------------------
(* Bounds *)

MaxLines == 2

MaxPieces == 3

-----------------------------------------------------------------------------
(* str primitives *)

Take(s, n) == SubSeq(s, 1, n)

Drop(s, n) == SubSeq(s, n + 1, Len(s))

\* s.startswith(p)
StartsWith(s, p) == Len(s) >= Len(p) /\ SubSeq(s, 1, Len(p)) = p

\* s.find(c) for a one-character c, 1-based; 0 when absent
Find(s, c) ==
    IF \E k \in 1..Len(s) : s[k] = c
    THEN CHOOSE k \in 1..Len(s) : s[k] = c /\ \A j \in 1..(k - 1) : s[j] # c
    ELSE 0

\* s.rfind(c), 1-based; 0 when absent
RFind(s, c) ==
    IF \E k \in 1..Len(s) : s[k] = c
    THEN CHOOSE k \in 1..Len(s) : s[k] = c /\ \A j \in (k + 1)..Len(s) : s[j] # c
    ELSE 0

\* s.split(c)[0]
SplitFirst(s, c) == IF Find(s, c) = 0 THEN s ELSE Take(s, Find(s, c) - 1)

Whitespace == {" ", "\t", "\n"}

\* s.lstrip(chars)
LStripChars(s, chars) ==
    IF \A k \in 1..Len(s) : s[k] \in chars
    THEN <<>>
    ELSE Drop(s, (CHOOSE k \in 1..Len(s) :
                    s[k] \notin chars /\ \A j \in 1..(k - 1) : s[j] \in chars) - 1)

\* s.rstrip(chars)
RStripChars(s, chars) ==
    IF \A k \in 1..Len(s) : s[k] \in chars
    THEN <<>>
    ELSE Take(s, CHOOSE k \in 1..Len(s) :
                    s[k] \notin chars /\ \A j \in (k + 1)..Len(s) : s[j] \in chars)

\* s.strip()
Strip(s) == RStripChars(LStripChars(s, Whitespace), Whitespace)

\* s with every character of chars removed
RECURSIVE RemoveChars(_, _)
RemoveChars(s, chars) ==
    IF s = <<>> THEN <<>>
    ELSE IF Head(s) \in chars THEN RemoveChars(Tail(s), chars)
    ELSE <<Head(s)>> \o RemoveChars(Tail(s), chars)

\* s.replace(old, new): every non-overlapping occurrence, left to right
RECURSIVE Replace(_, _, _)
Replace(s, old, new) ==
    IF Len(s) < Len(old) THEN s
    ELSE IF StartsWith(s, old) THEN new \o Replace(Drop(s, Len(old)), old, new)
    ELSE <<Head(s)>> \o Replace(Tail(s), old, new)

\* s.split(sep) for a one-character sep
RECURSIVE Split(_, _)
Split(s, sep) ==
    IF Find(s, sep) = 0 THEN <<s>>
    ELSE <<Take(s, Find(s, sep) - 1)>> \o Split(Drop(s, Find(s, sep)), sep)

-----------------------------------------------------------------------------
(* Literals of the script *)

BlobSegment == <<"/", "b", "l", "o", "b", "/">>

RawSegment == <<"/", "r", "a", "w", "/">>

Marker == <<"-", " ">>

LinksName == <<"l", "i", "n", "k", "s", ".", "t", "x", "t">>

-----------------------------------------------------------------------------
(* convert_blob_to_raw_url *)

convert_blob_to_raw_url(blob_url) == Replace(blob_url, BlobSegment, RawSegment)

-----------------------------------------------------------------------------
(* urllib.parse.urlparse(url).path *)

Letters ==
    {"a", "b", "c", "d", "e", "f", "g", "h", "i", "j", "k", "l", "m",
     "n", "o", "p", "q", "r", "s", "t", "u", "v", "w", "x", "y", "z"}

Digits == {"0", "1", "2", "3", "4", "5", "6", "7", "8", "9"}

\* urllib.parse.scheme_chars
SchemeChars == Letters \cup Digits \cup {"+", "-", "."}

\* urllib.parse.uses_params
UsesParams ==
    { <<>>,
      <<"f", "t", "p">>, <<"h", "d", "l">>,
      <<"p", "r", "o", "s", "p", "e", "r", "o">>,
      <<"h", "t", "t", "p">>, <<"i", "m", "a", "p">>,
      <<"h", "t", "t", "p", "s">>, <<"s", "h", "t", "t", "p">>,
      <<"r", "t", "s", "p">>, <<"r", "t", "s", "p", "u">>,
      <<"s", "i", "p">>, <<"s", "i", "p", "s">>, <<"m", "m", "s">>,
      <<"s", "f", "t", "p">>, <<"t", "e", "l">> }

\* urlsplit: leading C0-or-space characters stripped, tab and newline removed
UrlClean(url) == RemoveChars(LStripChars(url, Whitespace), {"\t", "\n"})

\* urlsplit: the url has a scheme when the text before the first ':' is
\* non-empty, starts with a letter and holds scheme characters only
HasScheme(u) ==
    /\ Find(u, ":") > 1
    /\ u[1] \in Letters
    /\ \A k \in 1..(Find(u, ":") - 1) : u[k] \in SchemeChars

UrlScheme(u) == IF HasScheme(u) THEN Take(u, Find(u, ":") - 1) ELSE <<>>

AfterScheme(u) == IF HasScheme(u) THEN Drop(u, Find(u, ":")) ELSE u

\* _splitnetloc(url, 2): the netloc ends at the first of '/', '?', '#'
AfterNetloc(u) ==
    IF StartsWith(u, <<"/", "/">>)
    THEN IF \E k \in 3..Len(u) : u[k] \in {"/", "?", "#"}
         THEN Drop(u, (CHOOSE k \in 3..Len(u) :
                         /\ u[k] \in {"/", "?", "#"}
                         /\ \A j \in 3..(k - 1) : u[j] \notin {"/", "?", "#"}) - 1)
         ELSE <<>>
    ELSE u

\* _splitparams(url)[0]
SplitParams(u) ==
    IF RFind(u, "/") > 0
    THEN LET tail == Drop(u, RFind(u, "/") - 1)
         IN  IF Find(tail, ";") = 0 THEN u
             ELSE Take(u, RFind(u, "/") - 1 + Find(tail, ";") - 1)
    ELSE Take(u, Find(u, ";") - 1)

\* urlparse(url).path
UrlPath(url) ==
    LET u      == UrlClean(url)
        scheme == UrlScheme(u)
        rest   == SplitFirst(SplitFirst(AfterNetloc(AfterScheme(u)), "#"), "?")
    IN  IF scheme \in UsesParams /\ Find(rest, ";") > 0
        THEN SplitParams(rest)
        ELSE rest

-----------------------------------------------------------------------------
(* pathlib.Path(path).name *)

\* the components pathlib keeps: empty ones and '.' are dropped
PathParts(path) ==
    SelectSeq(Split(path, "/"), LAMBDA part : part # <<>> /\ part # <<".">>)

PathName(path) ==
    IF PathParts(path) = <<>> THEN <<>>
    ELSE PathParts(path)[Len(PathParts(path))]

-----------------------------------------------------------------------------
(* extract_filename *)

extract_filename_unparsed(url) == PathName(SplitFirst(url, "#"))

extract_filename(url) == PathName(SplitFirst(UrlPath(url), "#"))

-----------------------------------------------------------------------------
(* The reader: the body of `for line in lines` *)

IsLink_dashOnly(line) == StartsWith(line, <<"-">>)

\* line 48, on the stripped line
IsLink(line) == StartsWith(line, Marker)

\* lines 49-51, on the stripped line
LinkUrl(line) == SplitFirst(Drop(line, 2), "#")

ParseLine_keepsFragment(us, line) ==
    LET stripped == Strip(line)
    IN  IF IsLink(stripped) /\ Drop(stripped, 2) # <<>>
        THEN Append(us, Drop(stripped, 2))
        ELSE us

\* lines 47-53: `urls` after the body has run on `line`
ParseLine(us, line) ==
    LET stripped == Strip(line)
    IN  IF IsLink(stripped) /\ LinkUrl(stripped) # <<>>
        THEN Append(us, LinkUrl(stripped))
        ELSE us

-----------------------------------------------------------------------------
(* Inputs: the lines links.txt may hold, the bodies a server may send *)

LineBlobX ==
    Marker \o <<"a">> \o BlobSegment \o <<"x", "#", "l", "4", "\n">>

LineOtherX == Marker \o <<"b">> \o BlobSegment \o <<"x", "\n">>

LineIndentedLinks ==
    <<" ", " ">> \o Marker \o <<"a">> \o BlobSegment \o LinksName \o <<"\n">>

LineBlank == <<"\n">>

LineDashOnly == <<"-", "\n">>

LineFragmentOnly == Marker \o <<"#", "l", "4", "\n">>

LineRoot == Marker \o <<"/", "\n">>

LineNoMarker == <<"x", "\n">>

LineSet ==
    { LineBlobX, LineOtherX, LineIndentedLinks, LineBlank, LineDashOnly,
      LineFragmentOnly, LineRoot, LineNoMarker }

\* every list of at most n lines
RECURSIVE LineLists(_)
LineLists(n) ==
    IF n = 0 THEN {<<>>}
    ELSE LET shorter == LineLists(n - 1)
         IN  shorter \cup {Append(l, x) : l \in shorter, x \in LineSet}

\* a file: whether it can be opened and decoded as UTF-8 text, and its lines
TextFile(ls) == [readable |-> TRUE, lines |-> ls]

UnreadableFile == [readable |-> FALSE, lines |-> <<>>]

BodyLinks == <<LineOtherX>>

BodyXml == << <<"<", "x", "/", ">", "\n">> >>

Bodies == {BodyLinks, BodyXml}

OldBody == << <<"o", "l", "d", "\n">> >>

FileX == <<"x">>

NoFiles == [n \in {} |-> UnreadableFile]

-----------------------------------------------------------------------------
(* File system and network primitives *)

Mkdir_skipped(exists) == exists

\* output_dir.mkdir(parents=True, exist_ok=True)
Mkdir(exists) == TRUE

WriteFile_append(fs, name, content) ==
    [n \in DOMAIN fs \cup {name} |->
        IF n # name THEN fs[n]
        ELSE IF n \in DOMAIN fs THEN TextFile(fs[n].lines \o content)
        ELSE TextFile(content)]

\* open(path, 'wb') followed by f.write(content)
WriteFile(fs, name, content) ==
    [n \in DOMAIN fs \cup {name} |-> IF n = name THEN TextFile(content) ELSE fs[n]]

\* output_dir / filename is a directory: output_dir itself or its parent
IsDirectory(filename) == filename \in {<<>>, <<".", ".">>}

\* the record of one item: what was requested, what came back, what was printed
Item(url, status, content, result) ==
    [ url      |-> url,
      raw_url  |-> convert_blob_to_raw_url(url),
      filename |-> extract_filename(convert_blob_to_raw_url(url)),
      status   |-> status,
      content  |-> content,
      result   |-> result ]

NoRun == [pc |-> "none", lines |-> <<>>, log |-> <<>>, files |-> NoFiles]

-----------------------------------------------------------------------------
(* download_xml_files *)

Init ==
    /\ pc = "start"
    /\ run = "first"
    /\ dirExists \in BOOLEAN
    /\ files \in
         IF dirExists
         THEN { [n \in names |-> IF n = LinksName THEN links ELSE TextFile(OldBody)] :
                  names \in SUBSET {LinksName, FileX},
                  links \in {UnreadableFile}
                             \cup {TextFile(ls) : ls \in LineLists(MaxLines)} }
         ELSE {NoFiles}
    /\ lines = <<>>
    /\ li = 0
    /\ urls = <<>>
    /\ i = 0
    /\ success_count = 0
    /\ fail_count = 0
    /\ log = <<>>
    /\ pre = [dirExists |-> dirExists, files |-> files]
    /\ first = NoRun
    /\ arg = <<>>
    /\ ret = [fn |-> "none", out |-> <<>>]

\* line 37
MakeOutputDir ==
    /\ pc = "start"
    /\ dirExists' = Mkdir(dirExists)
    /\ pc' = "open"
    /\ UNCHANGED <<run, files, lines, li, urls, i, success_count, fail_count,
                   log, pre, first, arg, ret>>

LinksReadable == LinksName \in DOMAIN files /\ files[LinksName].readable

\* lines 41-45
ReadLinks ==
    /\ pc = "open"
    /\ LinksReadable
    /\ lines' = files[LinksName].lines
    /\ urls' = <<>>
    /\ li' = 1
    /\ pc' = "parse"
    /\ UNCHANGED <<run, dirExists, files, i, success_count, fail_count, log,
                   pre, first, arg, ret>>

ReadLinksFails_continues ==
    /\ pc = "open"
    /\ ~LinksReadable
    /\ lines' = <<>>
    /\ urls' = <<>>
    /\ li' = 1
    /\ pc' = "parse"
    /\ UNCHANGED <<run, dirExists, files, i, success_count, fail_count, log,
                   pre, first, arg, ret>>

\* lines 41-42 raising FileNotFoundError, PermissionError or UnicodeDecodeError
ReadLinksFails ==
    /\ pc = "open"
    /\ ~LinksReadable
    /\ pc' = "aborted"
    /\ UNCHANGED <<run, dirExists, files, lines, li, urls, i, success_count,
                   fail_count, log, pre, first, arg, ret>>

\* lines 46-53, one line
ReadLine ==
    /\ pc = "parse"
    /\ li <= Len(lines)
    /\ urls' = ParseLine(urls, lines[li])
    /\ li' = li + 1
    /\ UNCHANGED <<pc, run, dirExists, files, lines, i, success_count,
                   fail_count, log, pre, first, arg, ret>>

\* lines 55-59
StartLoop ==
    /\ pc = "parse"
    /\ li > Len(lines)
    /\ success_count' = 0
    /\ fail_count' = 0
    /\ i' = 1
    /\ pc' = "loop"
    /\ UNCHANGED <<run, dirExists, files, lines, li, urls, log, pre, first,
                   arg, ret>>

\* lines 62-79: the response is a success and the file is written
DownloadOk ==
    /\ pc = "loop"
    /\ i <= Len(urls)
    /\ \E content \in Bodies :
         LET item == Item(urls[i], 200, content, "ok")
         IN  /\ ~IsDirectory(item.filename)
             /\ files' = WriteFile(files, item.filename, content)
             /\ log' = Append(log, item)
    /\ success_count' = success_count + 1
    /\ i' = i + 1
    /\ UNCHANGED <<pc, run, dirExists, lines, li, urls, fail_count, pre,
                   first, arg, ret>>

DownloadRequestException_truncates ==
    /\ pc = "loop"
    /\ i <= Len(urls)
    /\ \E status \in {0, 404} :
         LET item == Item(urls[i], status, <<>>, "fail")
         IN  /\ files' = IF IsDirectory(item.filename) THEN files
                         ELSE WriteFile(files, item.filename, <<>>)
             /\ log' = Append(log, item)
    /\ fail_count' = fail_count + 1
    /\ i' = i + 1
    /\ UNCHANGED <<pc, run, dirExists, lines, li, urls, success_count, pre,
                   first, arg, ret>>

\* lines 71-72 raising (status 0: no response, a timeout or a connection
\* failure; 404: raise_for_status), caught at lines 81-83
DownloadRequestException ==
    /\ pc = "loop"
    /\ i <= Len(urls)
    /\ \E status \in {0, 404} :
         log' = Append(log, Item(urls[i], status, <<>>, "fail"))
    /\ fail_count' = fail_count + 1
    /\ i' = i + 1
    /\ UNCHANGED <<pc, run, dirExists, files, lines, li, urls, success_count,
                   pre, first, arg, ret>>

DownloadOtherException_uncaught ==
    /\ pc = "loop"
    /\ i <= Len(urls)
    /\ \E content \in Bodies :
         LET item == Item(urls[i], 200, content, "fail")
         IN  /\ IsDirectory(item.filename)
             /\ log' = Append(log, item)
    /\ pc' = "aborted"
    /\ UNCHANGED <<run, dirExists, files, lines, li, urls, i, success_count,
                   fail_count, pre, first, arg, ret>>

\* line 75 raising IsADirectoryError after a successful fetch, caught at
\* lines 84-86
DownloadOtherException ==
    /\ pc = "loop"
    /\ i <= Len(urls)
    /\ \E content \in Bodies :
         LET item == Item(urls[i], 200, content, "fail")
         IN  /\ IsDirectory(item.filename)
             /\ log' = Append(log, item)
    /\ fail_count' = fail_count + 1
    /\ i' = i + 1
    /\ UNCHANGED <<pc, run, dirExists, files, lines, li, urls, success_count,
                   pre, first, arg, ret>>

\* lines 88-93
Summary ==
    /\ pc = "loop"
    /\ i > Len(urls)
    /\ pc' = "done"
    /\ UNCHANGED <<run, dirExists, files, lines, li, urls, i, success_count,
                   fail_count, log, pre, first, arg, ret>>

\* lines 96-97, a second time
RunAgain ==
    /\ pc \in {"done", "aborted"}
    /\ run = "first"
    /\ run' = "second"
    /\ first' = [pc |-> pc, lines |-> lines, log |-> log, files |-> files]
    /\ pre' = [dirExists |-> dirExists, files |-> files]
    /\ pc' = "start"
    /\ lines' = <<>>
    /\ li' = 0
    /\ urls' = <<>>
    /\ i' = 0
    /\ success_count' = 0
    /\ fail_count' = 0
    /\ log' = <<>>
    /\ UNCHANGED <<dirExists, files, arg, ret>>

Next ==
    \/ MakeOutputDir
    \/ ReadLinks
    \/ ReadLinksFails
    \/ ReadLine
    \/ StartLoop
    \/ DownloadOk
    \/ DownloadRequestException
    \/ DownloadOtherException
    \/ Summary
    \/ RunAgain

Spec == Init /\ [][Next]_vars

-----------------------------------------------------------------------------
(* The helpers and the reader's loop body called on their own, on every   *)
(* string made of at most MaxPieces pieces                                 *)

Pieces ==
    { BlobSegment, <<"b", "l", "o", "b", "/">>, <<"/">>, <<"#">>, Marker,
      <<"-">>, <<" ">>, <<"\n">>, <<"x">>, <<".">>, <<"?">>, <<";">>,
      <<"h", "t", "t", "p", "s", ":">> }

RECURSIVE Strings(_)
Strings(n) ==
    IF n = 0 THEN {<<>>}
    ELSE LET shorter == Strings(n - 1)
         IN  shorter \cup {s \o p : s \in shorter, p \in Pieces}

InitFn ==
    /\ pc = "start"
    /\ run = "first"
    /\ dirExists = FALSE
    /\ files = NoFiles
    /\ lines = <<>>
    /\ li = 0
    /\ urls = <<>>
    /\ i = 0
    /\ success_count = 0
    /\ fail_count = 0
    /\ log = <<>>
    /\ pre = [dirExists |-> dirExists, files |-> files]
    /\ first = NoRun
    /\ arg \in Strings(MaxPieces)
    /\ ret = [fn |-> "none", out |-> <<>>]

\* lines 12-14
CallConvert ==
    /\ ret.fn = "none"
    /\ ret' = [fn |-> "convert_blob_to_raw_url", out |-> convert_blob_to_raw_url(arg)]
    /\ UNCHANGED <<progVars, arg>>

\* lines 17-25
CallExtract ==
    /\ ret.fn = "none"
    /\ ret' = [fn |-> "extract_filename", out |-> extract_filename(arg)]
    /\ UNCHANGED <<progVars, arg>>

\* lines 45-53 with arg the only line of the file
CallReader ==
    /\ ret.fn = "none"
    /\ ret' = [fn |-> "reader", out |-> ParseLine(<<>>, arg)]
    /\ UNCHANGED <<progVars, arg>>

NextFn ==
    \/ CallConvert
    \/ CallExtract
    \/ CallReader

SpecFn == InitFn /\ [][NextFn]_vars

-----------------------------------------------------------------------------
(* Claims about the helpers, under SpecFn *)

\* the positions at which s holds '/blob/'
BlobPositions(s) == {k \in 1..Len(s) : StartsWith(Drop(s, k - 1), BlobSegment)}

\* C2: for a URL that contains '/blob/', convert_blob_to_raw_url returns the
\* input with '/raw/' in place of '/blob/' at exactly one position and every
\* other character unchanged; for a URL without '/blob/' it returns the input.
C2_ReplacedExactlyOnce ==
    ret.fn = "convert_blob_to_raw_url" =>
        IF BlobPositions(arg) = {}
        THEN ret.out = arg
        ELSE \E k \in BlobPositions(arg) :
                ret.out = Take(arg, k - 1) \o RawSegment
                              \o Drop(arg, k - 1 + Len(BlobSegment))

\* C3 as stated: a line whose raw text does not start with the marker yields
\* no URL, leading whitespace before the dash included.
C3_RawLineWithoutMarkerYieldsNothing ==
    (ret.fn = "reader" /\ ~StartsWith(arg, Marker)) => ret.out = <<>>

\* C3 amended: a line that does not start with the marker once its
\* surrounding whitespace is trimmed yields no URL.
C3_TrimmedLineWithoutMarkerYieldsNothing ==
    (ret.fn = "reader" /\ ~StartsWith(Strip(arg), Marker)) => ret.out = <<>>

\* a line with whitespace before a lone dash has been read and yielded nothing
C3_Witness ==
    /\ ret.fn = "reader"
    /\ Len(arg) >= 2
    /\ arg[1] = " "
    /\ arg[2] = "-"
    /\ ~StartsWith(Strip(arg), Marker)
    /\ ret.out = <<>>

\* the text after the last '/' of a path
LastSegment(path) == Drop(path, RFind(path, "/"))

Fragments == {<<>>, <<"l", "4">>, <<"/", "x">>, <<"#", "?">>}

\* the result does not change when '#fragment' is appended to the URL
FragmentIndependent ==
    \A frag \in Fragments : extract_filename(arg \o <<"#">> \o frag) = ret.out

-----------------------------------------------------------------------------
(* Claims about download_xml_files, under Spec *)

\* the items of the log with the given result
ItemsWith(result) == {k \in 1..Len(log) : log[k].result = result}

\* C1: a failure on one URL never aborts the batch: the URLs are processed
\* once each in list order, each adds exactly 1 to exactly one of
\* success_count and fail_count, and at the end the two sum to len(urls).
C1_EveryUrlCountedOnce ==
    /\ pc \in {"loop", "done"} =>
          /\ Len(log) = i - 1
          /\ \A k \in 1..Len(log) : log[k].url = urls[k]
          /\ success_count = Cardinality(ItemsWith("ok"))
          /\ fail_count = Cardinality(ItemsWith("fail"))
          /\ success_count + fail_count = Len(log)
    /\ pc = "done" => success_count + fail_count = Len(urls)
    /\ pc = "aborted" => log = <<>>

\* two URLs, the first answered 404, the second downloaded: 1 success, 1 failure
C1_Witness ==
    /\ pc = "done"
    /\ Len(urls) = 2
    /\ log[1].status = 404
    /\ log[2].result = "ok"
    /\ success_count = 1
    /\ fail_count = 1

\* line is '- <url>' or '- <url>#<fragment>' once trimmed, <url> non-empty
\* and free of '#'
WellFormed(line, url) ==
    LET t == Strip(line)
    IN  /\ url # <<>>
        /\ Find(url, "#") = 0
        /\ StartsWith(t, Marker \o url)
        /\ Len(t) > Len(Marker \o url) => t[Len(Marker \o url) + 1] = "#"

Yields(line) ==
    \E n \in 1..(Len(Strip(line)) - 2) :
        WellFormed(line, SubSeq(Strip(line), 3, 2 + n))

\* C4: the URL list holds, in file order, one entry per well-formed line,
\* namely its <url> without the marker and without the fragment, and no
\* entry for any other line.
C4_UrlsAreTheWellFormedLinesInOrder ==
    pc \in {"parse", "loop", "done"} =>
        \E f \in [1..Len(urls) -> 1..(li - 1)] :
            /\ \A k \in 1..Len(urls) : WellFormed(lines[f[k]], urls[k])
            /\ \A j, k \in 1..Len(urls) : j < k => f[j] < f[k]
            /\ \A j \in 1..(li - 1) :
                  (\A k \in 1..Len(urls) : f[k] # j) => ~Yields(lines[j])

\* a well-formed line with a fragment and a blank line: one URL, one attempt
C4_Witness ==
    /\ pc = "done"
    /\ lines = <<LineBlobX, LineBlank>>
    /\ urls = << <<"a">> \o BlobSegment \o <<"x">> >>
    /\ Len(log) = 1

LinksReadableBefore ==
    LinksName \in DOMAIN pre.files /\ pre.files[LinksName].readable

\* C6: a missing or unreadable links.txt aborts the run before any request
\* or write, and nothing else ends the run before the summary.
C6_OnlyTheLinksFileAborts ==
    /\ pc = "aborted" => (~LinksReadableBefore /\ log = <<>> /\ files = pre.files)
    /\ pc \in {"parse", "loop", "done"} => LinksReadableBefore
    /\ log # <<>> => pc \in {"loop", "done"}

\* the directory was there with another file in it but without links.txt
C6_Witness ==
    /\ pc = "aborted"
    /\ run = "first"
    /\ pre.dirExists
    /\ LinksName \notin DOMAIN pre.files
    /\ FileX \in DOMAIN files

\* C7: links.txt holds after the run what it held before the run.
C7_LinksFileNotMutated ==
    /\ (LinksName \in DOMAIN files) = (LinksName \in DOMAIN pre.files)
    /\ LinksName \in DOMAIN files => files[LinksName] = pre.files[LinksName]

SameRunTwice ==
    /\ run = "second"
    /\ pc = "done"
    /\ first.pc = "done"
    /\ lines = first.lines
    /\ Len(log) = Len(first.log)
    /\ \A k \in 1..Len(log) :
          /\ log[k].status = first.log[k].status
          /\ log[k].content = first.log[k].content

\* C9: a second run on the same list with the same responses leaves the
\* output directory as the first run left it: same names, same contents.
C9_SecondRunChangesNothing == SameRunTwice => files = first.files

\* both runs downloaded a file, the second time over the first run's copy
C9_Witness ==
    /\ SameRunTwice
    /\ \E k \in ItemsWith("ok") : log[k].filename \in DOMAIN pre.files
    /\ files = first.files

\* the items that fetched a file named f successfully
Fetched(f) == {k \in 1..Len(log) : log[k].filename = f /\ log[k].status = 200}

Last(S) == CHOOSE k \in S : \A j \in S : j <= k

\* C10: after the batch a file named by a successful fetch holds the body
\* of the last such fetch in list order, and every other file is as it was
\* before the run.
C10_LastWriteWins ==
    pc = "done" =>
        /\ DOMAIN pre.files \subseteq DOMAIN files
        /\ \A f \in DOMAIN files :
              IF Fetched(f) # {}
              THEN files[f] = TextFile(log[Last(Fetched(f))].content)
              ELSE f \in DOMAIN pre.files /\ files[f] = pre.files[f]

\* two URLs with the same file name fetched with different bodies over an
\* older file, next to a file no URL names
C10_Witness ==
    /\ pc = "done"
    /\ Len(log) = 2
    /\ log[1].filename = FileX
    /\ log[2].filename = FileX
    /\ log[1].url # log[2].url
    /\ log[1].status = 200
    /\ log[2].status = 200
    /\ log[1].content # log[2].content
    /\ FileX \in DOMAIN pre.files
    /\ files[FileX] = TextFile(log[2].content)
    /\ files[LinksName] = pre.files[LinksName]

====
